---- MODULE Spec2Model ----
(***************************************************************************)
(* Model of source/ml_engine.py: create_ensemble_forecasts, the two-stage  *)
(* ensemble forecasting run (first-stage quantile regression, second-stage *)
(* variability forecast, rescaling, persistence of the result bundle).     *)
(*                                                                         *)
(* One behaviour is a sequence of runs of create_ensemble_forecasts for    *)
(* one buyer resource and one configuration (ens_params), sharing the      *)
(* state file of that resource.  A run is a walk of pc through the body of *)
(* the function; each action is one block of the function.  Quantile       *)
(* levels are written in percent (0.5 is 50).  Data frames are abstracted  *)
(* to what the function itself inspects: emptiness, the length of a test   *)
(* partition, the presence of NaN, and one representative predicted value  *)
(* per quantile.                                                           *)
(***************************************************************************)
EXTENDS Integers, Sequences, FiniteSets, TLC

\* ------------------------------------------------------------------ bounds
\* longest configured list ens_params['quantiles']
MaxQuantiles == 2
\* number of consecutive runs on the same resource
MaxRuns == 2

\* ------------------------------------------------------- program constants
\* the required length of every validated test partition
HorizonLen == 96
\* the quantile that triggers the second stage (0.5, in percent)
Q50 == 50

\* quantile levels a configuration may list (percent)
QuantileLevels == {10, Q50}
\* lengths a split's test partition may turn out to have
TestLens == {HorizonLen, HorizonLen - 1}
\* representative raw (scaled-unit) model outputs
RawPredictions == {-1, 1}
ModelTypes == {"LR", "GBR"}
UseCases == {"wind_power", "wind_power_variability", "simulation", "none"}

\* all lists of quantile levels of length 0..MaxQuantiles (repetitions allowed:
\* the configuration holds a plain list)
QuantileLists == UNION {[1..n -> QuantileLevels] : n \in 0..MaxQuantiles}

\* ------------------------------------------------------------ dictionaries
EmptyDict == [q \in {} |-> 0]
Put(d, k, v) == [x \in (DOMAIN d) \cup {k} |-> IF x = k THEN v ELSE d[x]]

\* an empty pd.DataFrame() for a q10/q90 train/test pair
EmptyFrame == [empty |-> TRUE, test_len |-> 0, nan |-> FALSE]
\* no state file on disk
NoFile == [exists |-> FALSE, iteration |-> 0,
           best_results |-> EmptyDict, best_results_var |-> EmptyDict]
\* nothing returned (yet)
NoReturn == [kind |-> "none", records |-> {}, predictions |-> EmptyDict,
             variability |-> EmptyDict]
NoPrev == [ok |-> FALSE, iteration |-> 0,
           best_results |-> EmptyDict, best_results_var |-> EmptyDict]

VARIABLES
    ens_params,        \* the configuration record (fixed for the resource)
    df_market,         \* which quantile columns the market frame has
    simulation,        \* argument simulation (default False), fixed where
    challenge_usecase, \* it is first read, line 417; likewise challenge_usecase
    pc,                \* position in create_ensemble_forecasts
    err,               \* the exception that ended the run ("none" if none)
    steps,             \* blocks of the function executed so far in this run
    len_test,          \* len(df_test_ensemble) (0: not split yet)
    nan_train,         \* df_train_ensemble holds a NaN
    q10, q90,          \* q10/q90 train/test frames handed to the trainer
    len_2stage,        \* len(df_2stage_test) (0: not split yet)
    nan_2stage,        \* X_train_2stage holds a NaN
    iteration, best_results, best_results_var,
    prior_best, prior_best_var, \* what load_or_initialize_results returned
    predictions, variability_predictions,
    info1, info2,      \* keys of previous_day_results_{first,second}_stage
    i, j, k,           \* positions of the three loops over the quantiles
    fitted_model,      \* quantile of the model held by fitted_model (0: none)
    stage2_runs,       \* how often the second-stage block was entered
    stage2_models,     \* fitted_model at each entry of the second stage
    state_file,        \* content of the state file file_info
    file_at_start,     \* content of the state file when the run started
    ret,               \* what the run returned
    run,               \* number of the current run
    prev,              \* outcome of the previous run
    file_reads,        \* reads of the state file in this run
    file_writes,       \* writes of the state file in this run
    calls1, calls2,    \* trainer invocations of this run, per stage
    returned1,         \* best_results returned by the latest first-stage call
    returned2,         \* best_results_var returned by the latest second-stage call
    threaded           \* every trainer call so far got the state it should

vars == <<ens_params, df_market, simulation, challenge_usecase, pc, err, steps,
          len_test, nan_train, q10, q90, len_2stage, nan_2stage,
          iteration, best_results, best_results_var, prior_best, prior_best_var,
          predictions, variability_predictions, info1, info2, i, j, k,
          fitted_model, stage2_runs, stage2_models, state_file, file_at_start,
          ret, run, prev, file_reads, file_writes, calls1, calls2,
          returned1, returned2, threaded>>

\* the run's inputs and the state kept across runs
inputs == <<ens_params, df_market, run, prev, file_at_start>>
\* the arguments simulation and challenge_usecase
mode == <<simulation, challenge_usecase>>
\* frames built by the data-preparation blocks
frames == <<len_test, nan_train, q10, q90>>
\* second-stage frames
frames2 == <<len_2stage, nan_2stage>>
\* state threaded through the trainers
trainer_state == <<iteration, best_results, best_results_var,
                   prior_best, prior_best_var>>
first_stage == <<predictions, info1, i, fitted_model>>
\* accesses to the state file in this run
disk_io == <<file_reads, file_writes>>
\* what the trainers were called with and returned
trainer_calls == <<calls1, calls2, returned1, returned2, threaded>>
second_stage == <<variability_predictions, info2, j, stage2_runs, stage2_models>>

quantiles == ens_params.quantiles
NQ == Len(quantiles)

\* the locals of a run before its first statement
FreshLocals ==
    /\ err = "none" /\ steps = {}
    /\ len_test = 0 /\ nan_train = FALSE
    /\ q10 = EmptyFrame /\ q90 = EmptyFrame
    /\ len_2stage = 0 /\ nan_2stage = FALSE
    /\ iteration = 0 /\ best_results = EmptyDict /\ best_results_var = EmptyDict
    /\ prior_best = EmptyDict /\ prior_best_var = EmptyDict
    /\ predictions = EmptyDict /\ variability_predictions = EmptyDict
    /\ info1 = {} /\ info2 = {}
    /\ i = 1 /\ j = 1 /\ k = 1
    /\ fitted_model = 0 /\ stage2_runs = 0 /\ stage2_models = {}
    /\ ret = NoReturn
    /\ file_reads = 0 /\ file_writes = 0
    /\ calls1 = 0 /\ calls2 = 0
    /\ returned1 = EmptyDict /\ returned2 = EmptyDict
    /\ threaded = TRUE

Configurations ==
    [model_type : ModelTypes, normalize : BOOLEAN, standardize : BOOLEAN,
     scale_features : BOOLEAN, add_quantile_predictions : BOOLEAN,
     quantiles : QuantileLists]

MarketFrames == [q50 : BOOLEAN, q10 : BOOLEAN, q90 : BOOLEAN]

Init ==
    /\ ens_params \in Configurations
    /\ df_market \in MarketFrames
    /\ simulation = FALSE
    /\ challenge_usecase = "none"
    /\ pc = "extract"
    /\ FreshLocals
    /\ state_file = NoFile
    /\ file_at_start = NoFile
    /\ run = 1
    /\ prev = NoPrev

\* the run ends with exception e
Raise(e) == pc' = "failed" /\ err' = e

\* --------------------------------------------------- lines 42-58: extraction
\* extract_quantile_columns for q50, q10, q90, each followed by
\* impute_mean_for_nan when the extraction is not empty; then q50 is required
ExtractedSteps(m) ==
    {"extract_quantile_columns"}
    \cup (IF m.q50 \/ m.q10 \/ m.q90 THEN {"impute_mean_for_nan"} ELSE {})

\* lines 56-58: the q50 extraction must not be empty
RequiredQuantileFound_Any(m) == m.q50 \/ m.q10 \/ m.q90
RequiredQuantileFound(m) == m.q50

ExtractQuantiles ==
    /\ pc = "extract"
    /\ steps' = steps \cup ExtractedSteps(df_market)
    /\ IF RequiredQuantileFound(df_market)
          THEN pc' = "check_model_type" /\ err' = err
          ELSE Raise("ValueError_q50")
    /\ UNCHANGED <<inputs, disk_io, trainer_calls,
                   mode, frames, frames2, trainer_state, first_stage,
                   second_stage, k, state_file, ret>>

\* ------------------------------------------- lines 62-79: configuration checks
\* line 63-64: model_type 'LR' needs normalize or standardize
ModelTypeOK_ScaleFeatures(p) ==
    (p.model_type = "LR") => (p.normalize \/ p.standardize \/ p.scale_features)
ModelTypeOK(p) ==
    (p.model_type = "LR") => (p.normalize \/ p.standardize)

\* line 76: assert not (normalize or standardize and not scale_features);
\* Python binds `not` tighter than `and`, and `and` tighter than `or`
ScaleFeaturesOK_Grouped(p) ==
    ~((p.normalize \/ p.standardize) /\ ~p.scale_features)
ScaleFeaturesOK(p) ==
    ~(p.normalize \/ (p.standardize /\ ~p.scale_features))

\* line 79: assert not (normalize and standardize)
ExclusiveOK(p) ==
    ~(p.normalize /\ p.standardize)

CheckModelType ==
    /\ pc = "check_model_type"
    /\ steps' = steps \cup {"check_model_type"}
    /\ IF ModelTypeOK(ens_params)
          THEN pc' = "check_scale_features" /\ err' = err
          ELSE Raise("AssertionError_model_type")
    /\ UNCHANGED <<inputs, disk_io, trainer_calls,
                   mode, frames, frames2, trainer_state, first_stage,
                   second_stage, k, state_file, ret>>

\* the same block with the statistics of line 82 computed ahead of the assertion
CheckScaleFeatures_AfterStats ==
    /\ pc = "check_scale_features"
    /\ steps' = steps \cup {"buyer_scaler_statistics", "check_scale_features"}
    /\ IF ScaleFeaturesOK(ens_params)
          THEN pc' = "check_exclusive" /\ err' = err
          ELSE Raise("AssertionError_scale_features")
    /\ UNCHANGED <<inputs, disk_io, trainer_calls,
                   mode, frames, frames2, trainer_state, first_stage,
                   second_stage, k, state_file, ret>>

CheckScaleFeatures ==
    /\ pc = "check_scale_features"
    /\ steps' = steps \cup {"check_scale_features"}
    /\ IF ScaleFeaturesOK(ens_params)
          THEN pc' = "check_exclusive" /\ err' = err
          ELSE Raise("AssertionError_scale_features")
    /\ UNCHANGED <<inputs, disk_io, trainer_calls,
                   mode, frames, frames2, trainer_state, first_stage,
                   second_stage, k, state_file, ret>>

CheckExclusive ==
    /\ pc = "check_exclusive"
    /\ steps' = steps \cup {"check_exclusive"}
    /\ IF ExclusiveOK(ens_params)
          THEN pc' = "scale_augment" /\ err' = err
          ELSE Raise("AssertionError_exclusive")
    /\ UNCHANGED <<inputs, disk_io, trainer_calls,
                   mode, frames, frames2, trainer_state, first_stage,
                   second_stage, k, state_file, ret>>

\* ------------------------------- lines 81-143: scaler statistics, scaling,
\* augmentation of the q50 frame and, when add_quantile_predictions is set and
\* the frame is not empty, of the q10 / q90 frames
AugmentsQuantile_Unguarded(p, present) == p.add_quantile_predictions
AugmentsQuantile(p, present) == p.add_quantile_predictions /\ present

ScaleAndAugment ==
    /\ pc = "scale_augment"
    /\ steps' = steps \cup {"buyer_scaler_statistics", "scale_forecasters_dataframe",
                            "create_augmented_dataframe", "scale_buyer_dataframe"}
                      \cup (IF AugmentsQuantile(ens_params, df_market.q10)
                               THEN {"augment_q10"} ELSE {})
                      \cup (IF AugmentsQuantile(ens_params, df_market.q90)
                               THEN {"augment_q90"} ELSE {})
    /\ pc' = "split"
    /\ UNCHANGED <<inputs, disk_io, trainer_calls,
                   mode, err, frames, frames2, trainer_state, first_stage,
                   second_stage, k, state_file, ret>>

\* lines 163 and 302: assert len(test frame) == 96
TestLenOK_AtMost(n) == n <= HorizonLen
TestLenOK(n) == n = HorizonLen

\* ---------------- lines 145-163: first-stage split, concatenation, length check
SplitFirstStage ==
    /\ pc = "split"
    /\ steps' = steps \cup {"split_train_test_data"}
    /\ \E n \in TestLens :
          /\ len_test' = n
          /\ IF TestLenOK(n)
                THEN pc' = "split_quantile" /\ err' = err
                ELSE Raise("AssertionError_test_len")
    /\ UNCHANGED <<inputs, disk_io, trainer_calls,
                   mode, nan_train, q10, q90, frames2, trainer_state,
                   first_stage, second_stage, k, state_file, ret>>

\* ---------------------------- lines 165-180: split of the q10 and q90 frames
\* the frames split_quantile_train_test_data may return; nothing here checks them
SplitFrames == [empty : {FALSE}, test_len : TestLens, nan : BOOLEAN]

SplitQuantile(p, present) ==
    IF AugmentsQuantile(p, present) THEN SplitFrames ELSE {EmptyFrame}

SplitQuantiles ==
    /\ pc = "split_quantile"
    /\ steps' = steps \cup (IF AugmentsQuantile(ens_params, df_market.q10)
                               THEN {"split_q10"} ELSE {})
                      \cup (IF AugmentsQuantile(ens_params, df_market.q90)
                               THEN {"split_q90"} ELSE {})
    /\ q10' \in SplitQuantile(ens_params, df_market.q10)
    /\ q90' \in SplitQuantile(ens_params, df_market.q90)
    /\ pc' = "make_xy"
    /\ UNCHANGED <<inputs, disk_io, trainer_calls,
                   mode, err, len_test, nan_train, frames2, trainer_state,
                   first_stage, second_stage, k, state_file, ret>>

\* line 198: assert df_train_ensemble.isna().sum().sum() == 0
NoNaNs_Unchecked(nan) == TRUE
NoNaNs(nan) == ~nan

\* -------- lines 183-198: index check, numpy matrices, NaN check of the train frame
MakeXy ==
    /\ pc = "make_xy"
    /\ steps' = steps \cup {"get_numpy_Xy_train_test"}
    /\ \E aligned \in BOOLEAN, nan \in BOOLEAN :
          IF ~aligned
             THEN Raise("AssertionError_index") /\ nan_train' = nan_train
             ELSE /\ nan_train' = nan
                  /\ IF NoNaNs(nan) THEN pc' = "load" /\ err' = err
                                    ELSE Raise("AssertionError_nan")
    /\ UNCHANGED <<inputs, disk_io, trainer_calls,
                   mode, len_test, q10, q90, frames2, trainer_state,
                   first_stage, second_stage, k, state_file, ret>>

\* --------------------------------------- line 205: load_or_initialize_results
\* no state file: iteration 0 and empty best-results records; otherwise the
\* stored iteration plus one and the stored best-results records
LoadOrInitialize(file) ==
    IF file.exists
       THEN [iteration |-> file.iteration + 1,
             best_results |-> file.best_results,
             best_results_var |-> file.best_results_var]
       ELSE [iteration |-> 0, best_results |-> EmptyDict,
             best_results_var |-> EmptyDict]

\* where the function continues once the loop at line 223 is exhausted
AfterFirstStage == IF NQ = 0 THEN "assemble" ELSE "rescale"
\* next iteration of the loop at line 223 after position n
NextFirstStage(n) == IF n + 1 > NQ THEN AfterFirstStage ELSE "fit"

LoadResults ==
    /\ pc = "load"
    /\ steps' = steps \cup {"load_or_initialize_results"}
    /\ LET r == LoadOrInitialize(state_file) IN
          /\ iteration' = r.iteration
          /\ best_results' = r.best_results
          /\ best_results_var' = r.best_results_var
          /\ prior_best' = r.best_results
          /\ prior_best_var' = r.best_results_var
    /\ file_reads' = file_reads + 1
    /\ pc' = IF NQ = 0 THEN AfterFirstStage ELSE "fit"
    /\ UNCHANGED <<inputs, file_writes, trainer_calls,
                   mode, err, frames, frames2, first_stage, second_stage, k,
                   state_file, ret>>

\* ----------------------------------------------------------------- trainers
\* the best-results record a trainer returns for quantile q at iteration it: the
\* entry of q is whatever the trainer left there, named by the iteration of the call
TrainerBest(best, q, it) == Put(best, q, it)

\* lines 238 and 333: the record the trainer returned replaces the one held
ThreadedBest_Dropped(returned, held) == held
ThreadedBest(returned, held) == returned

\* line 265: the second stage runs inside the iteration that fitted 0.5
TriggersSecondStage_Always(quantile) == TRUE
TriggersSecondStage(quantile) == quantile = Q50

\* ------------------- lines 223-265: one iteration of the first-stage loop
FitFirstStage ==
    /\ pc = "fit"
    /\ i <= NQ
    /\ steps' = steps \cup {"predico_ensemble_predictions_per_quantile"}
    /\ LET quantile == quantiles[i] IN
          /\ \E raw \in RawPredictions :
                predictions' = Put(predictions, quantile, raw)
          /\ LET returned == TrainerBest(best_results, quantile, iteration) IN
                /\ best_results' = ThreadedBest(returned, best_results)
                /\ returned1' = returned
          /\ threaded' = (threaded /\ best_results =
                             (IF calls1 = 0 THEN prior_best ELSE returned1))
          /\ calls1' = calls1 + 1
          /\ fitted_model' = quantile
          /\ info1' = info1 \cup {quantile}
          /\ IF TriggersSecondStage(quantile)
                THEN pc' = "second_stage" /\ i' = i
                ELSE pc' = NextFirstStage(i) /\ i' = i + 1
    /\ UNCHANGED <<inputs, disk_io, calls2, returned2,
                   mode, err, frames, frames2, iteration, best_results_var,
                   prior_best, prior_best_var, second_stage, k, state_file, ret>>

\* ---------- lines 266-312: 2-stage frame, augmentation, split, length check
BuildSecondStage ==
    /\ pc = "second_stage"
    /\ steps' = steps \cup {"create_2stage_dataframe"}
    /\ stage2_runs' = stage2_runs + 1
    /\ stage2_models' = stage2_models \cup {fitted_model}
    /\ variability_predictions' = EmptyDict
    /\ info2' = {}
    /\ j' = 1
    /\ \E n \in TestLens :
          /\ len_2stage' = n
          /\ IF TestLenOK(n)
                THEN pc' = "fit_var" /\ err' = err /\ nan_2stage' \in BOOLEAN
                ELSE Raise("AssertionError_test_len") /\ nan_2stage' = nan_2stage
    /\ UNCHANGED <<inputs, disk_io, trainer_calls,
                   mode, frames, trainer_state, first_stage, k, state_file, ret>>

\* ------------------------------------------- rescaling (data_preprocess)
\* statistics of the buyer series, shared by every rescale of a run
ScalerStats == [mean |-> 1, std |-> 2, min |-> 0, max |-> 2]

\* rescale_predictions on one value: the inverse of the configured scaling
RescaleValue(p, x) ==
    IF p.normalize THEN x * (ScalerStats.max - ScalerStats.min) + ScalerStats.min
    ELSE IF p.standardize THEN x * ScalerStats.std + ScalerStats.mean
    ELSE x

\* set_non_negative_predictions on one value
NonNegative(x) == IF x < 0 THEN 0 ELSE x

\* lines 396-398: rescale_predictions, then set_non_negative_predictions
RescaledFirstStage_NoClip(p, x) == RescaleValue(p, x)
RescaledFirstStage(p, x) == NonNegative(RescaleValue(p, x))

\* lines 349-351: rescale_predictions only
RescaledSecondStage(p, x) == RescaleValue(p, x)

\* ---------------- lines 315-355: one iteration of the second-stage loop
\* (the loop variable is again `quantile`; the enclosing for statement draws
\* its next value from its own iterator, so the outer loop is not disturbed)
NextSecondStage_OffByOne(n) == IF n + 1 >= NQ THEN "end_second_stage" ELSE "fit_var"
NextSecondStage(n) == IF n + 1 > NQ THEN "end_second_stage" ELSE "fit_var"

FitSecondStage ==
    /\ pc = "fit_var"
    /\ j <= NQ
    /\ steps' = steps \cup {"predico_ensemble_variability_predictions"}
    /\ LET quantile == quantiles[j] IN
          /\ \E raw \in RawPredictions :
                variability_predictions' =
                    Put(variability_predictions, quantile,
                        RescaledSecondStage(ens_params, raw))
          /\ LET returned == TrainerBest(best_results_var, quantile, iteration) IN
                /\ best_results_var' = ThreadedBest(returned, best_results_var)
                /\ returned2' = returned
          /\ threaded' = (threaded /\ best_results_var =
                             (IF calls2 = 0 THEN prior_best_var ELSE returned2))
          /\ calls2' = calls2 + 1
          /\ info2' = info2 \cup {quantile}
    /\ j' = j + 1
    /\ pc' = NextSecondStage(j)
    /\ UNCHANGED <<inputs, disk_io, calls1, returned1,
                   mode, err, frames, frames2, iteration, best_results,
                   prior_best, prior_best_var, first_stage, stage2_runs,
                   stage2_models, k, state_file, ret>>

\* ------ lines 357-376: rescale targets, collect the variability table, release
EndSecondStage ==
    /\ pc = "end_second_stage"
    /\ steps' = steps \cup {"create_var_ensemble_dataframe"}
    /\ i' = i + 1
    /\ pc' = NextFirstStage(i)
    /\ UNCHANGED <<inputs, disk_io, trainer_calls,
                   mode, err, frames, frames2, trainer_state, predictions,
                   info1, fitted_model, second_stage, k, state_file, ret>>

\* ------------- lines 393-398: rescale and clip the first-stage predictions
RescaleFirstStage ==
    /\ pc = "rescale"
    /\ k <= NQ
    /\ steps' = steps \cup {"rescale_predictions"}
    /\ LET quantile == quantiles[k] IN
          predictions' =
              Put(predictions, quantile,
                  RescaledFirstStage(ens_params, predictions[quantile]))
    /\ k' = k + 1
    /\ pc' = IF k + 1 > NQ THEN "assemble" ELSE "rescale"
    /\ UNCHANGED <<inputs, disk_io, trainer_calls,
                   mode, err, frames, frames2, trainer_state, info1, i,
                   fitted_model, second_stage, state_file, ret>>

\* what pickle.dump leaves in the state file (lines 426-442 and 451-464): the
\* part of the bundle that load_or_initialize_results reads back
SavedBundle_NoBest(it, best, best_var) ==
    [exists |-> TRUE, iteration |-> it,
     best_results |-> EmptyDict, best_results_var |-> EmptyDict]
SavedBundle(it, best, best_var) ==
    [exists |-> TRUE, iteration |-> it,
     best_results |-> best, best_results_var |-> best_var]

\* ---------------- lines 404-415: rescale targets, collect the wind-power table
Assemble_SavesToo ==
    /\ pc = "assemble"
    /\ steps' = steps \cup {"create_ensemble_dataframe", "pickle_dump"}
    /\ state_file' = SavedBundle(iteration, best_results, best_results_var)
    /\ file_writes' = file_writes + 1
    /\ pc' = "save"
    /\ UNCHANGED <<inputs, file_reads, trainer_calls, mode, err, frames, frames2,
                   trainer_state, first_stage, second_stage, k, ret>>
Assemble ==
    /\ pc = "assemble"
    /\ steps' = steps \cup {"create_ensemble_dataframe"}
    /\ pc' = "save"
    /\ UNCHANGED <<inputs, disk_io, trainer_calls, mode, err, frames, frames2,
                   trainer_state, first_stage, second_stage, k, state_file, ret>>

\* ------------------------------------------ lines 417-466: bundle, save, return
\* the names df_var_ensemble, df_var_ensemble_melt, previous_day_results_second_stage
\* and var_pred_*_df are bound only inside the second-stage block
SecondStageBound_Always == TRUE
SecondStageBound == stage2_runs > 0

\* the records of the simulation bundle (lines 426-439)
BundleRecords == {"wind_power", "wind_power_variability", "wind_power_ramp"}

\* line 443: the whole bundle
SimulationReturn(preds, varpreds) ==
    [kind |-> "bundle", records |-> BundleRecords,
     predictions |-> preds, variability |-> varpreds]

\* line 466: results_challenge_dict[challenge_usecase]['predictions']
ChallengeReturn_WindPower(uc, preds, varpreds) ==
    [kind |-> "wind_power", records |-> {"wind_power"},
     predictions |-> preds, variability |-> EmptyDict]
ChallengeReturn(uc, preds, varpreds) ==
    [kind |-> uc, records |-> {uc},
     predictions |-> IF uc = "wind_power" THEN preds ELSE EmptyDict,
     variability |-> IF uc = "wind_power_variability" THEN varpreds ELSE EmptyDict]

\* lines 417-443: simulation mode
SaveSimulation ==
    /\ pc = "save"
    /\ simulation' = TRUE
    /\ challenge_usecase' \in UseCases
    /\ IF challenge_usecase' # "simulation"
          THEN /\ Raise("AssertionError_usecase")
               /\ UNCHANGED <<steps, state_file, file_writes, ret>>
       ELSE IF ~SecondStageBound
          THEN /\ Raise("NameError")
               /\ UNCHANGED <<steps, state_file, file_writes, ret>>
       ELSE /\ state_file' = SavedBundle(iteration, best_results, best_results_var)
            /\ file_writes' = file_writes + 1
            /\ steps' = steps \cup {"pickle_dump"}
            /\ ret' = SimulationReturn(predictions, variability_predictions)
            /\ pc' = "done" /\ err' = err
    /\ UNCHANGED <<inputs, file_reads, trainer_calls, frames, frames2,
                   trainer_state, first_stage, second_stage, k>>

\* lines 445-466: challenge mode
SaveChallenge ==
    /\ pc = "save"
    /\ simulation' = FALSE
    /\ challenge_usecase' \in UseCases
    /\ IF ~SecondStageBound
          THEN /\ Raise("NameError")
               /\ UNCHANGED <<steps, state_file, file_writes, ret>>
       ELSE /\ state_file' = SavedBundle(iteration, best_results, best_results_var)
            /\ file_writes' = file_writes + 1
            /\ steps' = steps \cup {"pickle_dump"}
            /\ IF challenge_usecase' \in {"wind_power", "wind_power_variability"}
                  THEN /\ ret' = ChallengeReturn(challenge_usecase', predictions,
                                                 variability_predictions)
                       /\ pc' = "done" /\ err' = err
                  ELSE /\ Raise("AssertionError_usecase")
                       /\ ret' = ret
    /\ UNCHANGED <<inputs, file_reads, trainer_calls, frames, frames2,
                   trainer_state, first_stage, second_stage, k>>

\* ------------------------------------------------ the next call on the resource
StartRun ==
    /\ pc \in {"done", "failed"}
    /\ run < MaxRuns
    /\ run' = run + 1
    /\ prev' = IF pc = "done"
                  THEN [ok |-> TRUE, iteration |-> iteration,
                        best_results |-> best_results,
                        best_results_var |-> best_results_var]
                  ELSE NoPrev
    /\ df_market' \in MarketFrames
    /\ simulation' = FALSE
    /\ challenge_usecase' = "none"
    /\ file_at_start' = state_file
    /\ pc' = "extract"
    /\ err' = "none" /\ steps' = {}
    /\ len_test' = 0 /\ nan_train' = FALSE
    /\ q10' = EmptyFrame /\ q90' = EmptyFrame
    /\ len_2stage' = 0 /\ nan_2stage' = FALSE
    /\ iteration' = 0 /\ best_results' = EmptyDict /\ best_results_var' = EmptyDict
    /\ prior_best' = EmptyDict /\ prior_best_var' = EmptyDict
    /\ predictions' = EmptyDict /\ variability_predictions' = EmptyDict
    /\ info1' = {} /\ info2' = {}
    /\ i' = 1 /\ j' = 1 /\ k' = 1
    /\ fitted_model' = 0 /\ stage2_runs' = 0 /\ stage2_models' = {}
    /\ ret' = NoReturn
    /\ file_reads' = 0 /\ file_writes' = 0
    /\ calls1' = 0 /\ calls2' = 0
    /\ returned1' = EmptyDict /\ returned2' = EmptyDict
    /\ threaded' = TRUE
    /\ UNCHANGED <<ens_params, state_file>>

Next ==
    \/ ExtractQuantiles
    \/ CheckModelType
    \/ CheckScaleFeatures
    \/ CheckExclusive
    \/ ScaleAndAugment
    \/ SplitFirstStage
    \/ SplitQuantiles
    \/ MakeXy
    \/ LoadResults
    \/ FitFirstStage
    \/ BuildSecondStage
    \/ FitSecondStage
    \/ EndSecondStage
    \/ RescaleFirstStage
    \/ Assemble
    \/ SaveSimulation
    \/ SaveChallenge
    \/ StartRun

Spec == Init /\ [][Next]_vars

\* ================================================================ properties
Finished == pc \in {"done", "failed"}

\* the three configuration assertions (lines 64, 76, 79)
ConfigErrors == {"AssertionError_model_type", "AssertionError_scale_features",
                 "AssertionError_exclusive"}

\* the data-processing blocks ahead of the state load
ExtractionSteps == {"extract_quantile_columns", "impute_mean_for_nan"}
ScalingSteps == {"buyer_scaler_statistics", "scale_forecasters_dataframe",
                 "scale_buyer_dataframe", "create_augmented_dataframe",
                 "augment_q10", "augment_q90"}
ConfigSteps == {"check_model_type", "check_scale_features", "check_exclusive"}

\* C1: once the scale_features check has run, it has rejected the configuration
\* exactly when (normalize or standardize) and not scale_features; so
\* normalize = true, standardize = false, scale_features = true passes it.
C1_ScaleCheckRejectsIffUnscaled ==
    ("check_scale_features" \in steps) =>
        ((err = "AssertionError_scale_features") <=>
            ((ens_params.normalize \/ ens_params.standardize)
                /\ ~ens_params.scale_features))

\* C2: a run that ended in an error has left the state file as it found it.
C2_FailedRunLeavesStateFile ==
    (pc = "failed") => (state_file = file_at_start)

\* C3 (as claimed): when a run has failed with a configuration error, no
\* data-processing block has run: no extraction, imputation, scaler statistics,
\* scaling or augmentation.
C3_ConfigErrorBeforeAnyData ==
    (err \in ConfigErrors) =>
        (steps \cap (ExtractionSteps \cup ScalingSteps) = {})

\* C3 (amended): when a run has failed with a configuration error, quantile
\* extraction and mean imputation have run and nothing else has: no scaler
\* statistics, scaling, augmentation, split, state load, fit or save.
C3_ConfigErrorBeforeScaling ==
    (err \in ConfigErrors) =>
        /\ pc = "failed"
        /\ ExtractionSteps \subseteq steps
        /\ steps \subseteq (ExtractionSteps \cup ConfigSteps)

\* C3 witness: the run was stopped by a configuration assertion after the
\* market frame had been extracted and imputed
C3_Witness ==
    /\ pc = "failed"
    /\ err = "AssertionError_scale_features"
    /\ "impute_mean_for_nan" \in steps

\* a trainer of the first / second stage has been invoked on the current matrices
FirstStageFitted == info1 # {}
SecondStageFitted == info2 # {}

\* the test partition of a q10/q90 split, when the split was performed, has 96 rows
QuantileSplitOK(f) == f.empty \/ f.test_len = HorizonLen

\* C4 (as claimed): no model is fitted unless every split performed so far
\* (first stage, q10, q90, second stage) has a test partition of 96 rows, and a
\* run with a first- or second-stage test partition of another length is aborted.
C4_EverySplitValidated ==
    /\ FirstStageFitted =>
          (len_test = HorizonLen /\ QuantileSplitOK(q10) /\ QuantileSplitOK(q90))
    /\ SecondStageFitted => (len_2stage = HorizonLen)

\* C4 (amended): the first-stage split and the second-stage split are validated
\* to have a test partition of 96 rows before a model is fitted on them, and a
\* run where one of the two has another length is aborted; the q10 and q90
\* splits are not validated and may reach the trainer with another length.
C4_StageSplitsValidated ==
    /\ FirstStageFitted => (len_test = HorizonLen)
    /\ SecondStageFitted => (len_2stage = HorizonLen)
    /\ (len_test \notin {0, HorizonLen} \/ len_2stage \notin {0, HorizonLen}) =>
          (pc = "failed" /\ err = "AssertionError_test_len")

\* C4 witness: both stages were fitted on validated splits while the q10 split,
\* which nothing validates, has a test partition of another length
C4_Witness ==
    /\ pc = "done"
    /\ FirstStageFitted /\ SecondStageFitted
    /\ len_test = HorizonLen /\ len_2stage = HorizonLen
    /\ ~q10.empty /\ q10.test_len # HorizonLen

\* C5 (as claimed): no trainer has been invoked on a training matrix holding a
\* NaN: not the first-stage matrix, not the q10/q90 matrices, not the
\* second-stage matrix.
C5_NoTrainingMatrixHasNaN ==
    /\ FirstStageFitted => (~nan_train /\ ~q10.nan /\ ~q90.nan)
    /\ SecondStageFitted => ~nan_2stage

\* C5 (amended): the first-stage trainer is never invoked unless the assertion
\* of zero NaNs in df_train_ensemble has passed, and a run whose train frame
\* holds a NaN is aborted; the q10/q90 matrices and the second-stage matrix are
\* not checked.
C5_TrainFrameHasNoNaN ==
    /\ FirstStageFitted => ~nan_train
    /\ nan_train => (pc = "failed" /\ err = "AssertionError_nan")

\* C5 witness: a completed run whose train frame passed the assertion while the
\* second-stage matrix held a NaN
C5_Witness ==
    /\ pc = "done"
    /\ FirstStageFitted /\ ~nan_train
    /\ SecondStageFitted /\ nan_2stage

\* the values of a prediction dictionary
Values(d) == {d[q] : q \in DOMAIN d}

\* C6 (as claimed): after a successful run no value of the wind-power output
\* and no value of the variability output is negative.
C6_OutputsNonNegative ==
    (pc = "done") =>
        /\ \A x \in Values(predictions) : x >= 0
        /\ \A x \in Values(variability_predictions) : x >= 0

\* C6 (amended): after a successful run every configured quantile has a
\* wind-power prediction that went through the clip, so no value of the
\* wind-power output is negative; the variability output is rescaled but not
\* clipped and may be negative.
C6_WindPowerNonNegative ==
    (pc = "done") =>
        /\ DOMAIN predictions = {quantiles[n] : n \in 1..NQ}
        /\ \A x \in Values(predictions) : x >= 0

\* C6 witness: a successful run whose wind-power output holds a value clipped
\* to zero and whose variability output holds a negative value
C6_Witness ==
    /\ pc = "done"
    /\ 0 \in Values(predictions)
    /\ \E x \in Values(variability_predictions) : x < 0

\* number of positions of list s holding x
Occurrences(s, x) == Cardinality({n \in 1..Len(s) : s[n] = x})

\* C7 (as claimed): in a run that completes the second stage was executed
\* exactly once, on the model just fitted for quantile 0.5.
C7_SecondStageExactlyOnce ==
    (pc = "done") => (stage2_runs = 1 /\ stage2_models = {Q50})

\* C7 (amended): the second stage is only ever entered on the model just fitted
\* for quantile 0.5, and in a run that completes it was executed at least once
\* and once for each occurrence of 0.5 in the configured list (so exactly once
\* when the list holds 0.5 once).
C7_SecondStagePerMedian ==
    /\ stage2_models \subseteq {Q50}
    /\ (pc = "done") =>
          /\ stage2_runs >= 1
          /\ stage2_runs = Occurrences(quantiles, Q50)

\* C7 witness: a completed run over a list that holds 0.5 twice
C7_Witness ==
    /\ pc = "done"
    /\ stage2_runs = 2
    /\ Occurrences(quantiles, Q50) = 2

\* C8: when a successful run directly follows a successful run on the same
\* resource and configuration, its iteration is the earlier run's iteration
\* plus one, and the best-results records it loaded (first stage and
\* variability stage) are the records the earlier run ended with.
C8_ConsecutiveRuns ==
    (pc = "done" /\ prev.ok) =>
        /\ iteration = prev.iteration + 1
        /\ prior_best = prev.best_results
        /\ prior_best_var = prev.best_results_var

\* C8 witness: a second successful run that loaded non-empty records
C8_Witness ==
    /\ pc = "done"
    /\ prev.ok
    /\ run = 2
    /\ prior_best # EmptyDict
    /\ prior_best_var # EmptyDict

\* model_type 'LR' with neither normalize nor standardize
UnscaledLR ==
    /\ ens_params.model_type = "LR"
    /\ ~ens_params.normalize
    /\ ~ens_params.standardize

\* blocks that load state, fit a model or write the state file
StatefulSteps == {"load_or_initialize_results",
                  "predico_ensemble_predictions_per_quantile",
                  "predico_ensemble_variability_predictions", "pickle_dump"}

\* C9 (as claimed): with model_type 'LR' and neither normalize nor standardize
\* a run ends in a configuration error, and never loads state, fits a model or
\* writes the state file.
C9_UnscaledLRConfigError ==
    UnscaledLR =>
        /\ pc # "done"
        /\ (pc = "failed") => (err \in ConfigErrors)
        /\ steps \cap StatefulSteps = {}
        /\ ~state_file.exists

\* C9 (amended): with model_type 'LR' and neither normalize nor standardize a
\* run never gets past the model-type check, so it never loads state, fits a
\* model or writes the state file; it ends in the model-type configuration
\* error when the market frame has q50 columns, and in the missing-q50
\* ValueError, raised first, when it has none.
C9_UnscaledLRNeverRuns ==
    UnscaledLR =>
        /\ pc \in {"extract", "check_model_type", "failed"}
        /\ (pc = "failed") =>
              (err = IF df_market.q50 THEN "AssertionError_model_type"
                                      ELSE "ValueError_q50")
        /\ steps \cap StatefulSteps = {}
        /\ ~state_file.exists

\* C9 witness: such a run, on a market frame with q50 columns, stopped by the
\* model-type assertion
C9_Witness ==
    /\ UnscaledLR
    /\ df_market.q50
    /\ pc = "failed"
    /\ err = "AssertionError_model_type"
    /\ ens_params.scale_features

\* normalize and standardize both set
BothScalings == ens_params.normalize /\ ens_params.standardize

OnlyQ50 == df_market.q50 /\ ~df_market.q10 /\ ~df_market.q90

\* the blocks that augment or split a q10 / q90 frame
QuantileSteps == {"augment_q10", "augment_q90", "split_q10", "split_q90"}

\* every configured quantile
QuantileSet == {quantiles[n] : n \in 1..NQ}

ReachedReturn ==
    Finished /\ "create_ensemble_dataframe" \in steps /\ stage2_runs > 0

ChallengeTargets == {"wind_power", "wind_power_variability"}

\* C13 (as claimed): every call reaching the return with challenge_usecase
\* 'wind_power' or 'wind_power_variability' returns only that target's table,
\* and every such call with challenge_usecase 'simulation' returns the bundle.
C13_ReturnSelectedByUsecase ==
    ReachedReturn =>
        /\ (challenge_usecase \in ChallengeTargets) =>
              (pc = "done" /\ ret.records = {challenge_usecase})
        /\ (challenge_usecase = "simulation") =>
              (pc = "done" /\ ret.records = BundleRecords)

\* C13 (amended): the simulation flag selects the branch and challenge_usecase
\* must agree with it. With simulation false and a challenge target, only that
\* target's predictions table is returned; with simulation true and
\* challenge_usecase 'simulation', the bundle with its three records; any other
\* combination ends in the use-case assertion and nothing is returned.
C13_ReturnSelectedByMode ==
    ReachedReturn =>
        /\ (pc = "done") <=>
              \/ simulation /\ challenge_usecase = "simulation"
              \/ ~simulation /\ challenge_usecase \in ChallengeTargets
        /\ (pc = "done" /\ simulation) =>
              /\ ret.kind = "bundle" /\ ret.records = BundleRecords
              /\ ret.predictions = predictions
              /\ ret.variability = variability_predictions
        /\ (pc = "done" /\ ~simulation) =>
              /\ ret.kind = challenge_usecase
              /\ ret.records = {challenge_usecase}
              /\ (challenge_usecase = "wind_power") =>
                    (ret.predictions = predictions /\ ret.variability = EmptyDict)
              /\ (challenge_usecase = "wind_power_variability") =>
                    (ret.variability = variability_predictions
                        /\ ret.predictions = EmptyDict)
        /\ (pc = "failed") => (err = "AssertionError_usecase" /\ ret = NoReturn)

\* C13 witness: a challenge-mode call for 'wind_power_variability' that
\* returned the variability table alone
C13_Witness ==
    /\ pc = "done" /\ ~simulation
    /\ challenge_usecase = "wind_power_variability"
    /\ ret.records = {"wind_power_variability"}
    /\ ret.variability = variability_predictions
    /\ DOMAIN ret.variability # {}

TrainerSteps == {"predico_ensemble_predictions_per_quantile",
                 "predico_ensemble_variability_predictions"}

\* C14: a run reads the state file at most once and writes it at most once; a
\* successful run does each exactly once; the read has happened before any
\* trainer is invoked; and the write is the last thing a run does before it
\* ends, with both quantile loops and the rescale loop exhausted.
C14_OneReadOneWrite ==
    /\ file_reads <= 1 /\ file_writes <= 1
    /\ (pc = "done") => (file_reads = 1 /\ file_writes = 1)
    /\ (calls1 + calls2 > 0 \/ steps \cap TrainerSteps # {}) => file_reads = 1
    /\ (file_writes = 1) =>
          (Finished /\ file_reads = 1 /\ i > NQ /\ k > NQ /\ calls1 = NQ)

\* C14 witness: a successful run with trainer calls in both stages and a
\* rescale step, one read and one write
C14_Witness ==
    /\ pc = "done"
    /\ calls1 > 1 /\ calls2 > 1
    /\ "rescale_predictions" \in steps
    /\ file_reads = 1 /\ file_writes = 1

\* C15: every trainer call receives the loaded best-results state if it is the
\* first of its stage and otherwise the state the previous call of its stage
\* returned; the state held after a call is the one it returned; and the bundle
\* written holds the states returned by the last call of each stage.
C15_BestResultsThreaded ==
    /\ threaded
    /\ (calls1 > 0) => best_results = returned1
    /\ (calls2 > 0) => best_results_var = returned2
    /\ (calls1 = 0) => best_results = prior_best
    /\ (calls2 = 0) => best_results_var = prior_best_var
    /\ ("pickle_dump" \in steps) =>
          /\ calls1 > 0 /\ calls2 > 0
          /\ state_file.best_results = returned1
          /\ state_file.best_results_var = returned2

\* C15 witness: a second run, started from a stored state, that called each
\* trainer twice and wrote the states the last calls returned
C15_Witness ==
    /\ pc = "done" /\ run = 2
    /\ DOMAIN prior_best # {}
    /\ calls1 = 2 /\ calls2 >= 2
    /\ returned1 # prior_best /\ returned2 # prior_best_var
    /\ state_file.best_results = returned1
    /\ state_file.best_results_var = returned2

\* the four key sets of a run's results
KeySetsMatch ==
    /\ info1 = QuantileSet
    /\ info2 = QuantileSet
    /\ DOMAIN predictions = QuantileSet
    /\ DOMAIN variability_predictions = QuantileSet

\* C16 (as claimed): after a successful run the four key sets equal the set of
\* configured quantiles and each trainer was invoked once per entry of the
\* quantile list.
C16_OncePerQuantile ==
    (pc = "done") => (KeySetsMatch /\ calls1 = NQ /\ calls2 = NQ)

\* C16 (amended): after a successful run the four key sets equal the set of
\* configured quantiles, the first-stage trainer was invoked once per entry of
\* the quantile list and the second-stage trainer once per entry for each
\* occurrence of 0.5 in the list.
C16_OncePerEntryPerMedian ==
    (pc = "done") =>
        /\ KeySetsMatch
        /\ calls1 = NQ
        /\ calls2 = NQ * Occurrences(quantiles, Q50)

\* C16 witness: a successful run on a list holding 0.5 twice
C16_Witness ==
    /\ pc = "done"
    /\ Occurrences(quantiles, Q50) = 2
    /\ KeySetsMatch
    /\ calls1 = NQ /\ calls2 = 2 * NQ

\* the configured quantiles do not contain 0.5
NoMedian == Q50 \notin QuantileSet

\* C17: when the quantiles do not contain 0.5 the run never writes the state
\* file, never returns and never enters the second stage; if it gets as far as
\* the result assembly it fails there, in either mode, after every first-stage
\* trainer has run and updated the in-memory best-results state.
C17_NoMedianNeverSaves ==
    NoMedian =>
        /\ pc # "done" /\ ret = NoReturn
        /\ file_writes = 0 /\ state_file = NoFile
        /\ stage2_runs = 0 /\ calls2 = 0
        /\ ("create_ensemble_dataframe" \in steps) =>
              /\ calls1 = NQ
              /\ DOMAIN best_results = DOMAIN prior_best \cup QuantileSet
              /\ \A q \in QuantileSet : best_results[q] = iteration
              /\ Finished => err \in {"NameError", "AssertionError_usecase"}

\* C17 witness: a challenge-mode run on a non-empty list without 0.5 that failed
\* on the unbound second-stage names after its first-stage trainer calls
C17_Witness ==
    /\ NoMedian /\ NQ > 0
    /\ pc = "failed" /\ err = "NameError" /\ ~simulation
    /\ calls1 = NQ
    /\ best_results # prior_best
    /\ ~state_file.exists
====
